---- MODULE Spec2Model ----
(***************************************************************************)
(* Model of the resend-link worker (src/src/index.ts): the GET / pipeline  *)
(* cache lookup -> env validation -> token extraction -> verification ->   *)
(* fetch -> respond, with the detached cache write, run by concurrent      *)
(* invocations against one edge cache.                                     *)
(*                                                                         *)
(* Strings that the code trims are sequences of one-character strings;     *)
(* JavaScript values whose type the code inspects are tagged records       *)
(* [t |-> "undefined" | "null" | "number" | "string" | "object", v |-> _]. *)
(***************************************************************************)
EXTENDS Integers, Sequences, FiniteSets, TLC

VARIABLES now, cache, req

vars == <<now, cache, req>>

----------------------------------------------------------------------------
(* Bounds of the model.                                                    *)

\* Clock values are 0..MaxTime (seconds, floor(Date.now() / 1000)).
MaxTime == 2

\* The exp claim of the tokens that are valid at clock 0: they expire when
\* the clock reaches its last value.
TokenExp == MaxTime

----------------------------------------------------------------------------
(* JavaScript values.                                                      *)

Undef == [t |-> "undefined", v |-> 0]
Null == [t |-> "null", v |-> 0]
Num(n) == [t |-> "number", v |-> n]
Str(s) == [t |-> "string", v |-> s]
Obj(o) == [t |-> "object", v |-> o]

\* typeof x (typeof null is "object")
TypeOf(x) == IF x.t = "null" THEN "object" ELSE x.t

\* x === null || x === undefined
IsNullish(x) == x.t \in {"null", "undefined"}

IsSpace(ch) == ch = " "

RECURSIVE TrimStart(_)
TrimStart(s) ==
  IF s = <<>> THEN <<>>
  ELSE IF IsSpace(Head(s)) THEN TrimStart(Tail(s)) ELSE s

RECURSIVE TrimEnd(_)
TrimEnd(s) ==
  IF s = <<>> THEN <<>>
  ELSE IF IsSpace(s[Len(s)]) THEN TrimEnd(SubSeq(s, 1, Len(s) - 1)) ELSE s

\* String.prototype.trim
Trim(s) == TrimEnd(TrimStart(s))

----------------------------------------------------------------------------
(* Result values and responses.                                            *)

success(value) == [ok |-> TRUE, value |-> value]

failure(status, message) == [ok |-> FALSE, status |-> status, message |-> message]

TextPlain == "text/plain; charset=utf-8"
TextHtml == "text/html; charset=utf-8"

\* The cache-control header value as its directives; <<>> is "no header".
NoCacheControl == <<>>
NoStore == <<"no-store">>
PublicMaxAge(n) == <<"public", "max-age", n, "s-maxage", n>>

createErrorResponse(message, status) ==
  [status |-> status, body |-> message, ctype |-> TextPlain, cc |-> NoCacheControl]

\* createSuccessResponse, were a lifetime of zero still cacheable.
createSuccessResponseFromZero(html, ttlSeconds) ==
  [status |-> 200, body |-> html, ctype |-> TextHtml,
   cc |-> IF ttlSeconds >= 0 THEN PublicMaxAge(ttlSeconds) ELSE NoStore]

createSuccessResponse(html, ttlSeconds) ==
  [status |-> 200, body |-> html, ctype |-> TextHtml,
   cc |-> IF ttlSeconds > 0 THEN PublicMaxAge(ttlSeconds) ELSE NoStore]

\* A thrown exception, as the value a call produces instead of returning.
throw(err) == [ok |-> FALSE, thrown |-> err]

IsThrow(r) == "thrown" \in DOMAIN r

----------------------------------------------------------------------------
(* Environment validation.                                                 *)

\* value.trim() of a binding that is not a string is a TypeError.
normalizeSecret(value) ==
  IF value.t # "string" THEN throw("TypeError")
  ELSE LET trimmed == Trim(value.v) IN
       IF Len(trimmed) = 0 THEN failure(500, "Server misconfigured")
       ELSE success(trimmed)

validateEnv(e) ==
  LET apiKeyResult == normalizeSecret(e.RESEND_API_KEY)
      jwtSecretResult == normalizeSecret(e.RESEND_JWT_SECRET)
  IN IF ~apiKeyResult.ok THEN apiKeyResult
     ELSE IF ~jwtSecretResult.ok THEN jwtSecretResult
     ELSE success([apiKey |-> apiKeyResult.value,
                   jwtSecret |-> jwtSecretResult.value])

----------------------------------------------------------------------------
(* Token extraction.                                                       *)

\* A request URL: the path and the raw value of the token query parameter
\* (has = FALSE: searchParams.get("token") is null).
Url(path, has, token) == [path |-> path, has |-> has, token |-> token]

\* Mutant: the blank check made on the untrimmed parameter.
extractTokenUntrimmed(request) ==
  IF ~request.url.has THEN failure(400, "Token not provided")
  ELSE IF Len(request.url.token) = 0 THEN failure(400, "Token not provided")
  ELSE success(Trim(request.url.token))

extractTokenFromRequest(request) ==
  IF ~request.url.has THEN failure(400, "Token not provided")
  ELSE LET trimmed == Trim(request.url.token) IN
       IF Len(trimmed) = 0 THEN failure(400, "Token not provided")
       ELSE success(trimmed)

\* The cache key is the verbatim request URL.
\* createCacheKey, were the query string left out of the key.
createCacheKeyPathOnly(request) == Url(request.url.path, FALSE, <<>>)

createCacheKey(request) == request.url

----------------------------------------------------------------------------
(* Tokens.  A compact JWS is a one-symbol string naming an entry of Jwts:  *)
(* the secret it was signed with and its payload.  Any other string is     *)
(* not a JWS.                                                              *)

SecretA == <<"a">>
SecretB == <<"b">>
EmailId == Str("e1")

Jwt(secret, email_id, iat, exp) ==
  [secret |-> secret, payload |-> [email_id |-> email_id, iat |-> iat, exp |-> exp]]

Jwts ==
  [tGood     |-> Jwt(SecretA, EmailId, Num(0), Num(TokenExp)),
   tOther    |-> Jwt(SecretB, EmailId, Num(0), Num(TokenExp)),
   tExpired  |-> Jwt(SecretA, EmailId, Num(0), Num(0)),
   tShort    |-> Jwt(SecretA, EmailId, Num(0), Num(TokenExp - 1)),
   tNoEmail  |-> Jwt(SecretA, Undef, Num(0), Num(TokenExp)),
   tEmptyId  |-> Jwt(SecretA, Str(""), Num(0), Num(TokenExp)),
   tNumId    |-> Jwt(SecretA, Num(7), Num(0), Num(TokenExp)),
   tNoIat    |-> Jwt(SecretA, EmailId, Undef, Num(TokenExp)),
   tNoExp    |-> Jwt(SecretA, EmailId, Num(0), Undef),
   tBare     |-> Jwt(SecretA, Undef, Undef, Undef),
   tStrExp   |-> Jwt(SecretA, EmailId, Num(0), Str("2")),
   tStrIat   |-> Jwt(SecretA, EmailId, Str("0"), Num(TokenExp))]

IsCompactJws(token) == Len(token) = 1 /\ token[1] \in DOMAIN Jwts

\* jwtVerify(token, secretBytes) of jose, evaluated at clock t: the
\* structure, then the signature, then the types of iat and exp when
\* present, then exp against the clock.  It resolves with the payload or
\* throws the named error.
\* jwtVerify, were the signature not checked.
jwtVerifyAnySecret(token, secretBytes, t) ==
  IF ~IsCompactJws(token) THEN throw("JWSInvalid")
  ELSE LET jwt == Jwts[token[1]]
           iat == jwt.payload.iat
           exp == jwt.payload.exp
       IN IF iat.t # "undefined" /\ TypeOf(iat) # "number"
            THEN throw("JWTClaimValidationFailed")
          ELSE IF exp.t # "undefined" /\ TypeOf(exp) # "number"
            THEN throw("JWTClaimValidationFailed")
          ELSE IF exp.t = "number" /\ exp.v <= t THEN throw("JWTExpired")
          ELSE success([payload |-> jwt.payload])

jwtVerify(token, secretBytes, t) ==
  IF ~IsCompactJws(token) THEN throw("JWSInvalid")
  ELSE LET jwt == Jwts[token[1]]
           iat == jwt.payload.iat
           exp == jwt.payload.exp
       IN IF jwt.secret # secretBytes THEN throw("JWSSignatureVerificationFailed")
          ELSE IF iat.t # "undefined" /\ TypeOf(iat) # "number"
            THEN throw("JWTClaimValidationFailed")
          ELSE IF exp.t # "undefined" /\ TypeOf(exp) # "number"
            THEN throw("JWTClaimValidationFailed")
          ELSE IF exp.t = "number" /\ exp.v <= t THEN throw("JWTExpired")
          ELSE success([payload |-> jwt.payload])

extractEmailId(payload) ==
  LET candidate == payload.email_id IN
  IF TypeOf(candidate) = "string" /\ Len(candidate.v) > 0
  THEN success(candidate.v)
  ELSE failure(400, "Token payload missing email_id")

\* Mutant: an expired token gets a message of its own.
resolveEmailIdLeaky(verificationResult) ==
  IF IsThrow(verificationResult)
  THEN IF verificationResult.thrown = "JWTExpired"
       THEN failure(401, "Token expired")
       ELSE failure(401, "Invalid or expired token")
  ELSE LET emailIdResult == extractEmailId(verificationResult.value.payload)
           iat == verificationResult.value.payload.iat
           exp == verificationResult.value.payload.exp
       IN IF ~emailIdResult.ok THEN emailIdResult
          ELSE IF TypeOf(iat) # "number" \/ TypeOf(exp) # "number"
            THEN failure(400, "Token missing required timestamps")
          ELSE success([emailId |-> emailIdResult.value,
                        issuedAtSeconds |-> iat.v,
                        expiresAtSeconds |-> exp.v])

\* Mutant: the timestamps are checked before email_id.
resolveEmailIdTimestampsFirst(verificationResult) ==
  IF IsThrow(verificationResult) THEN failure(401, "Invalid or expired token")
  ELSE LET emailIdResult == extractEmailId(verificationResult.value.payload)
           iat == verificationResult.value.payload.iat
           exp == verificationResult.value.payload.exp
       IN IF TypeOf(iat) # "number" \/ TypeOf(exp) # "number"
            THEN failure(400, "Token missing required timestamps")
          ELSE IF ~emailIdResult.ok THEN emailIdResult
          ELSE success([emailId |-> emailIdResult.value,
                        issuedAtSeconds |-> iat.v,
                        expiresAtSeconds |-> exp.v])

\* resolveEmailId, given what jwtVerify produced (the try block after the
\* await, and the catch).
resolveEmailId(verificationResult) ==
  IF IsThrow(verificationResult) THEN failure(401, "Invalid or expired token")
  ELSE LET emailIdResult == extractEmailId(verificationResult.value.payload)
           iat == verificationResult.value.payload.iat
           exp == verificationResult.value.payload.exp
       IN IF ~emailIdResult.ok THEN emailIdResult
          ELSE IF TypeOf(iat) # "number" \/ TypeOf(exp) # "number"
            THEN failure(400, "Token missing required timestamps")
          ELSE success([emailId |-> emailIdResult.value,
                        issuedAtSeconds |-> iat.v,
                        expiresAtSeconds |-> exp.v])

----------------------------------------------------------------------------
(* Resource fetcher.                                                       *)

isRecord(value) == TypeOf(value) = "object" /\ value.t # "null"

\* value.v is the object's message property.
isResendClientError(value) ==
  IF ~isRecord(value) THEN FALSE
  ELSE TypeOf(value.v) = "string"

\* What resend.emails.get produced: it rejected (thrown), or resolved with
\* {data, error}; data.v is the html property of a data object.
Outcome(thrown, error, data) == [thrown |-> thrown, error |-> error, data |-> data]

\* Mutant: the data is examined before the error.
fetchEmailHtmlDataFirst(out) ==
  IF out.thrown THEN throw("Error")
  ELSE IF IsNullish(out.data) /\ IsNullish(out.error)
    THEN failure(404, "Email not found")
  ELSE IF ~IsNullish(out.data) THEN
         LET htmlCandidate == IF out.data.t = "object" THEN out.data.v ELSE Undef IN
         IF TypeOf(htmlCandidate) # "string" \/ Len(htmlCandidate.v) = 0
         THEN failure(502, "Email body is unavailable")
         ELSE success(htmlCandidate.v)
  ELSE IF isResendClientError(out.error) THEN failure(502, out.error.v.v)
  ELSE failure(502, "Unable to fetch email")

\* The body of fetchEmailHtml's try block, given what the awaited call produced.
fetchEmailHtmlTry(out) ==
  IF out.thrown THEN throw("Error")
  ELSE IF ~IsNullish(out.error) THEN
         IF isResendClientError(out.error)
         THEN failure(502, out.error.v.v)
         ELSE failure(502, "Unable to fetch email")
  ELSE IF IsNullish(out.data) THEN failure(404, "Email not found")
  ELSE LET htmlCandidate == IF out.data.t = "object" THEN out.data.v ELSE Undef IN
       IF TypeOf(htmlCandidate) # "string" \/ Len(htmlCandidate.v) = 0
       THEN failure(502, "Email body is unavailable")
       ELSE success(htmlCandidate.v)

\* try { ... } catch { return failure(502, ...) }
fetchEmailHtml(out) ==
  LET r == fetchEmailHtmlTry(out) IN
  IF IsThrow(r) THEN failure(502, "Unable to fetch email") ELSE r

----------------------------------------------------------------------------
(* The edge cache: a function from cache keys to entries; an entry is the  *)
(* stored response and the clock value at which the cache discards it.     *)

\* The freshness lifetime a shared cache reads from cache-control:
\* s-maxage, else max-age, else none.
CacheLifetime(response) ==
  LET cc == response.cc IN
  IF Len(cc) >= 5 /\ cc[4] = "s-maxage" THEN cc[5]
  ELSE IF Len(cc) >= 3 /\ cc[2] = "max-age" THEN cc[3]
  ELSE 0

NoResponse == [status |-> 0, body |-> "", ctype |-> "", cc |-> NoCacheControl]

\* cache.match(key) at clock t: the stored response, or NoResponse for
\* undefined.
CacheMatch(c, key, t) ==
  IF key \in DOMAIN c /\ t < c[key].expiresAt THEN c[key].response
  ELSE NoResponse

\* cache.put(key, response) taking effect at clock t.
CachePut(c, key, response, t) ==
  (key :> [response |-> response, expiresAt |-> t + CacheLifetime(response)]) @@ c

----------------------------------------------------------------------------
(* Inputs.                                                                 *)

Env(apiKey, jwtSecret) == [RESEND_API_KEY |-> apiKey, RESEND_JWT_SECRET |-> jwtSecret]

ApiKey == <<"k">>

GoodEnv == Env(Str(ApiKey), Str(SecretA))

\* The bindings an invocation can be given: padded, blank, empty and
\* absent credentials, and a rotated signing secret.
Envs ==
  {GoodEnv,
   Env(Str(<<" ">> \o ApiKey), Str(SecretA \o <<" ">>)),
   Env(Str(ApiKey), Str(SecretB)),
   Env(Str(<<" ">>), Str(SecretA)),
   Env(Str(ApiKey), Str(<<" ", " ">>)),
   Env(Str(<<>>), Str(<<>>)),
   Env(Undef, Str(SecretA)),
   Env(Str(ApiKey), Undef)}

Root(token) == Url("/", TRUE, token)

\* The URLs whose token verifies under SecretA at clock 0 and carries all
\* three claims; the padded one is a different URL with the same token.
GoodUrls == {Root(<<"tGood">>), Root(<<" ", "tGood">>)}

Urls ==
  GoodUrls \cup
  {Url("/", FALSE, <<>>), Root(<<>>), Root(<<" ", " ">>),
   Root(<<"x">>), Root(<<"tGood", " ", "tGood">>),
   Root(<<"tOther">>), Root(<<"tExpired">>),
   Root(<<"tNoEmail">>), Root(<<"tEmptyId">>), Root(<<"tNumId">>),
   Root(<<"tNoIat">>), Root(<<"tNoExp">>), Root(<<"tBare">>),
   Root(<<"tStrExp">>), Root(<<"tStrIat">>),
   Url("/other", TRUE, <<"tGood">>)}

Methods == {"GET", "POST"}

Html1 == "h1"
Html2 == "h2"

\* Every shape of what the provider call produces.
Errors == {Null, Undef, Obj(Str("m")), Obj(Str("")), Obj(Undef), Obj(Num(5)),
           Str("m")}
Datas == {Null, Undef, Obj(Str(Html1)), Obj(Str("")), Obj(Undef), Obj(Num(5)), Num(5)}
Outcomes ==
  {Outcome(TRUE, Undef, Undef)} \cup
  {Outcome(FALSE, e, d) : e \in Errors, d \in Datas}

\* The inputs of the concurrent specification: the two cacheable URLs and
\* an expired one, the good bindings and unusable ones, and a provider
\* whose content changes or is missing.
FewMethods == {"GET"}
FewUrls == GoodUrls \cup {Root(<<"tExpired">>)}
FewEnvs == {GoodEnv, Env(Str(<<" ">>), Str(SecretB))}
FewOutcomes == {Outcome(FALSE, Null, Obj(Str(Html1))),
                Outcome(FALSE, Null, Obj(Str(Html2))),
                Outcome(FALSE, Null, Null)}

----------------------------------------------------------------------------
(* One invocation of the worker.                                           *)

Reqs == {1, 2}

\* What is recorded with a cache entry about the invocation that wrote it:
\* its URL, the email id it asked the provider for, the html the provider
\* gave it, and whether jwtVerify had
\* resolved for it on a token signed with the secret of its bindings.
NoOrigin ==
  [url |-> Url("", FALSE, <<>>), emailId |-> "", html |-> "", verified |-> FALSE]

NoClaims == [emailId |-> "", issuedAtSeconds |-> 0, expiresAtSeconds |-> 0]
NoCreds == [apiKey |-> <<>>, jwtSecret |-> <<>>]

\* pc is the await the handler is suspended at; put is the state of the
\* detached cache write.  The other fields after response record the run
\* for the properties: trace lists the stages entered; hit, a response
\* taken from the cache; escaped, an exception that left the handler; why,
\* the error jwtVerify threw; out, what the provider call produced;
\* builtAt, the clock when the success response was built; seen, what the
\* cache lookup met (after200: another invocation had already answered
\* 200 for this URL when this one arrived; early: the lookup came before
\* the token's exp; written: a cache write for the key had taken effect;
\* live and body: the cache held an undiscarded entry, and its body;
\* origin: the record of the invocation that wrote that entry; late: the
\* entry was still held after the expiry of the token in the URL).
Idle ==
  [pc |-> "idle", method |-> "", url |-> Url("", FALSE, <<>>),
   env |-> Env(Undef, Undef), creds |-> NoCreds, token |-> <<>>,
   claims |-> NoClaims, response |-> NoResponse, put |-> "none",
   trace |-> <<>>, hit |-> FALSE, escaped |-> FALSE, why |-> "",
   seen |-> [after200 |-> FALSE, early |-> FALSE, written |-> FALSE,
             live |-> FALSE, body |-> "", origin |-> NoOrigin, late |-> FALSE],
   out |-> Outcome(FALSE, Undef, Undef), builtAt |-> 0]

\* What the framework's default error handler renders for an exception
\* that escapes the route handler.
InternalServerError ==
  [status |-> 500, body |-> "Internal Server Error",
   ctype |-> "text/plain; charset=UTF-8", cc |-> NoCacheControl]

Respond(q, response) == [q EXCEPT !.pc = "done", !.response = response]

Enter(q, stage) == [q EXCEPT !.trace = Append(@, stage)]

\* app.notFound
notFound(q) == Respond(q, createErrorResponse("Not Found", 404))

\* Mutant: the route registered for every method.
RouteAnyMethod(q) ==
  IF q.url.path = "/"
  THEN [Enter(q, "cache") EXCEPT !.pc = "match"]
  ELSE notFound(q)

\* The router: only GET / reaches the handler, which first awaits
\* cache.match(cacheKey).
Route(q) ==
  IF q.method = "GET" /\ q.url.path = "/"
  THEN [Enter(q, "cache") EXCEPT !.pc = "match"]
  ELSE notFound(q)

\* Mutant: the token is extracted before the environment is validated.
OnMissTokenFirst(q) ==
  LET q1 == Enter(q, "token")
      tokenResult == extractTokenFromRequest(q)
  IN IF ~tokenResult.ok
       THEN Respond(q1, createErrorResponse(tokenResult.message, tokenResult.status))
     ELSE LET q2 == Enter(q1, "env")
              envResult == validateEnv(q.env)
          IN IF IsThrow(envResult)
               THEN [Respond(q2, InternalServerError) EXCEPT !.escaped = TRUE]
             ELSE IF ~envResult.ok
               THEN Respond(q2, createErrorResponse(envResult.message, envResult.status))
             ELSE [Enter(q2, "verify") EXCEPT !.pc = "verify",
                                               !.creds = envResult.value,
                                               !.token = tokenResult.value]

\* Lines 183-196: after a cache miss, up to the call of jwtVerify.  An
\* exception thrown here leaves the handler.
OnMiss(q) ==
  LET q1 == Enter(q, "env")
      envResult == validateEnv(q.env)
  IN IF IsThrow(envResult)
       THEN [Respond(q1, InternalServerError) EXCEPT !.escaped = TRUE]
     ELSE IF ~envResult.ok
       THEN Respond(q1, createErrorResponse(envResult.message, envResult.status))
     ELSE LET q2 == Enter(q1, "token")
              tokenResult == extractTokenFromRequest(q)
          IN IF ~tokenResult.ok
               THEN Respond(q2, createErrorResponse(tokenResult.message,
                                                    tokenResult.status))
             ELSE [Enter(q2, "verify") EXCEPT !.pc = "verify",
                                               !.creds = envResult.value,
                                               !.token = tokenResult.value]

\* Mutant: a cached response is returned only under a valid environment.
AfterMatchRevalidate(q, cached) ==
  IF cached # NoResponse /\ validateEnv(q.env).ok
  THEN [Respond(q, cached) EXCEPT !.hit = TRUE]
  ELSE OnMiss(q)

\* Lines 179-181, then OnMiss: what follows the result of cache.match.
AfterMatch(q, cached) ==
  IF cached # NoResponse THEN [Respond(q, cached) EXCEPT !.hit = TRUE]
  ELSE OnMiss(q)

\* Lines 197-204: from the result of resolveEmailId to the provider call.
AfterVerify(q, emailIdResult) ==
  IF ~emailIdResult.ok
  THEN Respond(q, createErrorResponse(emailIdResult.message, emailIdResult.status))
  ELSE [Enter(q, "fetch") EXCEPT !.pc = "fetch", !.claims = emailIdResult.value]

\* Mutants: a lifetime one second short, and one second long.
maxAgeSecondsShort(expiresAtSeconds, t) == expiresAtSeconds - t - 1

maxAgeSecondsLong(expiresAtSeconds, t) == expiresAtSeconds - t + 1

\* expiresAtSeconds - Math.floor(Date.now() / 1000)
maxAgeSeconds(expiresAtSeconds, t) == expiresAtSeconds - t

\* Lines 205-215: from the result of fetchEmailHtml to the response, with
\* the cache write handed to waitUntil.
\* The handler, were a failed fetch tried a second time.
AfterFetchRetryOnce(q, emailHtmlResult, t) ==
  IF ~emailHtmlResult.ok
  THEN IF Len(q.trace) = 5
       THEN Enter(q, "fetch")
       ELSE Respond(q, createErrorResponse(emailHtmlResult.message, emailHtmlResult.status))
  ELSE LET maxAge == maxAgeSeconds(q.claims.expiresAtSeconds, t)
           response == createSuccessResponse(emailHtmlResult.value, maxAge)
           q1 == Enter(q, "respond")
       IN IF maxAge > 0
          THEN [Respond(Enter(q1, "put"), response) EXCEPT !.put = "pending"]
          ELSE Respond(q1, response)

\* The handler, were the write to the cache awaited before the response
\* is returned.
AfterFetchAwaitsPut(q, emailHtmlResult, t) ==
  IF ~emailHtmlResult.ok
  THEN Respond(q, createErrorResponse(emailHtmlResult.message, emailHtmlResult.status))
  ELSE LET maxAge == maxAgeSeconds(q.claims.expiresAtSeconds, t)
           response == createSuccessResponse(emailHtmlResult.value, maxAge)
           q1 == Enter(q, "respond")
       IN IF maxAge > 0
          THEN [Respond(Enter(q1, "put"), response) EXCEPT !.put = "pending", !.pc = "put"]
          ELSE Respond(q1, response)

\* The handler, were the write to the cache scheduled whatever the lifetime.
AfterFetchAlwaysPut(q, emailHtmlResult, t) ==
  IF ~emailHtmlResult.ok
  THEN Respond(q, createErrorResponse(emailHtmlResult.message, emailHtmlResult.status))
  ELSE LET maxAge == maxAgeSeconds(q.claims.expiresAtSeconds, t)
           response == createSuccessResponse(emailHtmlResult.value, maxAge)
           q1 == Enter(q, "respond")
       IN [Respond(Enter(q1, "put"), response) EXCEPT !.put = "pending"]

AfterFetch(q, emailHtmlResult, t) ==
  IF ~emailHtmlResult.ok
  THEN Respond(q, createErrorResponse(emailHtmlResult.message, emailHtmlResult.status))
  ELSE LET maxAge == maxAgeSeconds(q.claims.expiresAtSeconds, t)
           response == createSuccessResponse(emailHtmlResult.value, maxAge)
           q1 == Enter(q, "respond")
       IN IF maxAge > 0
          THEN [Respond(Enter(q1, "put"), response) EXCEPT !.put = "pending"]
          ELSE Respond(q1, response)

----------------------------------------------------------------------------
(* The state machine.                                                      *)

\* The exp claim of the token a URL carries (0 when it carries none).
TokenExpiry(url) ==
  LET token == Trim(url.token) IN
  IF url.has /\ IsCompactJws(token) /\ Jwts[token[1]].payload.exp.t = "number"
  THEN Jwts[token[1]].payload.exp.v
  ELSE 0

Origin(q) ==
  [url |-> q.url,
   emailId |-> q.claims.emailId,
   html |-> IF q.out.data.t = "object" /\ q.out.data.v.t = "string"
            THEN q.out.data.v.v ELSE "",
   verified |-> /\ \E i \in DOMAIN q.trace : q.trace[i] = "verify"
                /\ q.why = ""
                /\ q.env.RESEND_JWT_SECRET.t = "string"
                /\ IsCompactJws(Trim(q.url.token))
                /\ Jwts[Trim(q.url.token)[1]].secret = Trim(q.env.RESEND_JWT_SECRET.v)]

\* The cache c with the entry under key marked as written by origin.
Stamp(c, key, origin) ==
  [k \in DOMAIN c |->
     IF k = key
     THEN [response |-> c[k].response, expiresAt |-> c[k].expiresAt, origin |-> origin]
     ELSE c[k]]

Returned200(o, url) ==
  /\ req[o].pc = "done"
  /\ req[o].method = "GET"
  /\ req[o].url = url
  /\ req[o].response.status = 200

Init ==
  /\ now = 0
  /\ cache = <<>>
  /\ req = [r \in Reqs |-> Idle]

\* worker.fetch(request, env, ctx): the runtime starts an invocation.
Receive(r, method, url, e) ==
  /\ req[r].pc = "idle"
  /\ req' = [req EXCEPT ![r] =
       Route([Idle EXCEPT !.method = method, !.url = url, !.env = e,
                          !.seen.after200 = \E o \in Reqs : Returned200(o, url)])]
  /\ UNCHANGED <<now, cache>>

\* cache.match resolves.
MatchReturn(r) ==
  /\ req[r].pc = "match"
  /\ LET q == req[r]
         key == createCacheKey(q)
         held == key \in DOMAIN cache
     IN \E q1 \in {[q EXCEPT !.seen.early = now < TokenExpiry(q.url),
                             !.seen.late = /\ held /\ now < cache[key].expiresAt
                                           /\ now > TokenExpiry(q.url),
                             !.seen.written = held,
                             !.seen.live = held /\ now < cache[key].expiresAt,
                             !.seen.body = IF held THEN cache[key].response.body ELSE "",
                             !.seen.origin = IF held THEN cache[key].origin ELSE NoOrigin]} :
          req' = [req EXCEPT ![r] = AfterMatch(q1, CacheMatch(cache, key, now))]
  /\ UNCHANGED <<now, cache>>

\* jwtVerify settles.
VerifyReturn(r) ==
  /\ req[r].pc = "verify"
  /\ LET q == req[r]
         verificationResult == jwtVerify(q.token, q.creds.jwtSecret, now)
     IN \E q1 \in {[q EXCEPT !.why = IF IsThrow(verificationResult)
                                      THEN verificationResult.thrown ELSE ""]} :
          req' = [req EXCEPT ![r] = AfterVerify(q1, resolveEmailId(verificationResult))]
  /\ UNCHANGED <<now, cache>>

\* resend.emails.get settles.
FetchReturn(r, out) ==
  /\ req[r].pc = "fetch"
  /\ req' = [req EXCEPT ![r] =
       AfterFetch([req[r] EXCEPT !.out = out, !.builtAt = now],
                  fetchEmailHtml(out), now)]
  /\ UNCHANGED <<now, cache>>

\* The detached cache.put(cacheKey, response.clone()) takes effect.
PutComplete(r) ==
  /\ req[r].put = "pending"
  /\ LET key == createCacheKey(req[r]) IN
     cache' = Stamp(CachePut(cache, key, req[r].response, now), key, Origin(req[r]))
  /\ req' = [req EXCEPT ![r].put = "stored"]
  /\ UNCHANGED now

\* The detached cache.put rejects; nothing awaits it.
PutFail(r) ==
  /\ req[r].put = "pending"
  /\ req' = [req EXCEPT ![r].put = "failed"]
  /\ UNCHANGED <<now, cache>>

\* The invocation ends once the response is out and waitUntil has settled.
Retire(r) ==
  /\ req[r].pc = "done"
  /\ req[r].put # "pending"
  /\ req' = [req EXCEPT ![r] = Idle]
  /\ UNCHANGED <<now, cache>>

Tick ==
  /\ now < MaxTime
  /\ now' = now + 1
  /\ UNCHANGED <<cache, req>>

\* The next-state relation over invocations R and inputs M, U, E, O.
Step(R, M, U, E, O) ==
  \/ \E r \in R, m \in M, u \in U, e \in E : Receive(r, m, u, e)
  \/ \E r \in R : MatchReturn(r)
  \/ \E r \in R : VerifyReturn(r)
  \/ \E r \in R, out \in O : FetchReturn(r, out)
  \/ \E r \in R : PutComplete(r)
  \/ \E r \in R : PutFail(r)
  \/ \E r \in R : Retire(r)
  \/ Tick

\* Concurrent invocations over the few inputs.
Next == Step(Reqs, FewMethods, FewUrls, FewEnvs, FewOutcomes)

Spec == Init /\ [][Next]_vars

\* One invocation at a time over every input.
NextSeq == Step({1}, Methods, Urls, Envs, Outcomes)

SpecSeq == Init /\ [][NextSeq]_vars

\* Two concurrent invocations, with the good bindings, over the tokens
\* that fail verification (and one that passes).
FailUrls == {Root(<<"tOther">>), Root(<<"x">>), Root(<<"tExpired">>),
             Root(<<"tStrExp">>), Root(<<"tGood">>)}

NextPair == Step(Reqs, FewMethods, FailUrls, {GoodEnv}, FewOutcomes)

SpecPair == Init /\ [][NextPair]_vars

\* Two concurrent invocations under the signing secret and under a rotated
\* one, over a token of each secret.
AuthUrls == {Root(<<"tGood">>), Root(<<"tOther">>)}

AuthEnvs == {GoodEnv, Env(Str(ApiKey), Str(SecretB))}

AuthOutcomes == {Outcome(FALSE, Null, Obj(Str(Html1))),
                 Outcome(FALSE, Null, Obj(Str(Html2)))}

NextAuth == Step(Reqs, FewMethods, AuthUrls, AuthEnvs, AuthOutcomes)

SpecAuth == Init /\ [][NextAuth]_vars

\* The awaits of the handler settle: cache.match, jwtVerify and the
\* provider's call each return or throw.  Nothing awaits the promise given
\* to waitUntil, so the detached cache.put may stay pending for ever.
HandlerFairness ==
  \A r \in Reqs :
    /\ WF_vars(MatchReturn(r))
    /\ WF_vars(VerifyReturn(r))
    /\ WF_vars(\E out \in FewOutcomes : FetchReturn(r, out))

\* Two concurrent invocations, with the good bindings, over a token that
\* verifies and one that does not.
LiveUrls == {Root(<<"tGood">>), Root(<<"tExpired">>)}

NextLive == Step(Reqs, FewMethods, LiveUrls, {GoodEnv}, FewOutcomes)

SpecLive == Init /\ [][NextLive]_vars /\ HandlerFairness

\* Two concurrent invocations, with the good bindings, over a token that
\* expires at the last clock value and one that expires a second earlier.
ExpiryUrls == {Root(<<"tGood">>), Root(<<"tShort">>)}

NextExpiry == Step(Reqs, FewMethods, ExpiryUrls, {GoodEnv}, FewOutcomes)

SpecExpiry == Init /\ [][NextExpiry]_vars

----------------------------------------------------------------------------
(* Vocabulary of the properties, stated on the inputs of an invocation.    *)

Range(f) == {f[i] : i \in DOMAIN f}

Entered(q, stage) == stage \in Range(q.trace)

IsGetRoot(q) == q.method = "GET" /\ q.url.path = "/"

\* The token query parameter is absent or only whitespace.
TokenMissing(q) ==
  ~q.url.has \/ \A i \in DOMAIN q.url.token : q.url.token[i] = " "

\* A credential that is a string with a character other than a space.
Usable(credential) ==
  /\ credential.t = "string"
  /\ \E i \in DOMAIN credential.v : credential.v[i] # " "

EnvValid(q) == Usable(q.env.RESEND_API_KEY) /\ Usable(q.env.RESEND_JWT_SECRET)

Fresh200(q) == q.pc = "done" /\ q.response.status = 200 /\ ~q.hit

\* The payload of the token the URL carries (a compact JWS).
PayloadOf(q) == Jwts[Trim(q.url.token)[1]].payload

HasEmailId(p) == p.email_id.t = "string" /\ p.email_id.v # ""

HasTimestamps(p) == p.iat.t = "number" /\ p.exp.t = "number"

\* The provider reported an error; the error carries a string message.
ErrorPresent(o) == o.error.t \notin {"null", "undefined"}

ErrorMessage(o) == o.error.t = "object" /\ o.error.v.t = "string"

DataPresent(o) == o.data.t \notin {"null", "undefined"}

\* The provider's data carries a non-empty html string.
HtmlPresent(o) == o.data.t = "object" /\ o.data.v.t = "string" /\ o.data.v.v # ""

Is(response, status, body) ==
  /\ response.status = status
  /\ response.body = body
  /\ response.ctype = TextPlain
  /\ response.cc = NoCacheControl

----------------------------------------------------------------------------
(* C1: caching idempotence.                                                *)

\* C1 as stated: once some invocation has answered 200 for a URL, an
\* invocation for the same URL that arrives afterwards and looks the cache
\* up before the token's exp never calls the provider.
C1_RefetchNever ==
  \A r \in Reqs :
    (req[r].seen.after200 /\ req[r].seen.early) => ~Entered(req[r], "fetch")

\* C1 amended: once a cache write for the URL has taken effect, an invocation
\* whose cache lookup comes before the token's exp is answered 200 with the
\* body that was written, and never calls the provider.
C1_ServedFromCache ==
  \A r \in Reqs :
    LET q == req[r] IN
    (q.pc \notin {"idle", "match"} /\ q.seen.written /\ q.seen.early) =>
      /\ q.pc = "done"
      /\ q.response.status = 200
      /\ q.response.body = q.seen.body
      /\ ~Entered(q, "fetch")

C1_Witness ==
  \E r \in Reqs :
    /\ req[r].pc = "done"
    /\ req[r].seen.after200 /\ req[r].seen.written /\ req[r].seen.early
    /\ req[r].response.status = 200

----------------------------------------------------------------------------
(* C2: a missing token.                                                    *)

\* C2 as stated: every GET / whose token parameter is absent or only
\* whitespace is answered 400 "Token not provided" and never calls the
\* provider.
C2_Always400 ==
  \A r \in Reqs :
    LET q == req[r] IN
    (q.pc = "done" /\ IsGetRoot(q) /\ TokenMissing(q)) =>
      /\ q.response.status = 400
      /\ q.response.body = "Token not provided"
      /\ ~Entered(q, "fetch")

\* C2 amended: such a request never calls the provider, and when both
\* credentials are usable it is answered 400 "Token not provided".
C2_TokenNotProvided ==
  \A r \in Reqs :
    LET q == req[r] IN
    (q.pc # "idle" /\ IsGetRoot(q) /\ TokenMissing(q)) =>
      /\ ~Entered(q, "verify") /\ ~Entered(q, "fetch")
      /\ (q.pc = "done" /\ EnvValid(q)) =>
           /\ q.response.status = 400
           /\ q.response.body = "Token not provided"
           /\ q.response.ctype = TextPlain

C2_Witness ==
  \E r \in Reqs :
    /\ req[r].pc = "done" /\ IsGetRoot(req[r]) /\ EnvValid(req[r])
    /\ req[r].url.has /\ Len(req[r].url.token) > 0 /\ TokenMissing(req[r])
    /\ req[r].response.status = 400

----------------------------------------------------------------------------
(* C3: max-age against the token's remaining lifetime.                     *)

\* C3: a success response built at clock builtAt carries no max-age or
\* s-maxage larger than exp - builtAt, and when exp - builtAt <= 0 it
\* carries none and no cache write is made for it.
C3_MaxAgeWithinLifetime ==
  \A r \in Reqs :
    LET q == req[r]
        remaining == TokenExpiry(q.url) - q.builtAt
    IN Fresh200(q) =>
         /\ CacheLifetime(q.response) <= IF remaining > 0 THEN remaining ELSE 0
         /\ Len(q.response.cc) >= 3 => q.response.cc[3] <= remaining
         /\ remaining <= 0 => (q.put = "none" /\ ~Entered(q, "put"))

C3_Witness ==
  \E r, o \in Reqs :
    /\ Fresh200(req[r]) /\ TokenExpiry(req[r].url) - req[r].builtAt <= 0
    /\ Fresh200(req[o]) /\ TokenExpiry(req[o].url) - req[o].builtAt > 0
    /\ req[o].put = "stored"

----------------------------------------------------------------------------
(* C4: verification failures are indistinguishable.                        *)

\* C4: every invocation whose jwtVerify threw is answered 401 "Invalid or
\* expired token" without calling the provider, and any two such
\* invocations get equal responses whatever the two errors were.
C4_UniformFailure ==
  \A r, o \in Reqs :
    (req[r].why # "" /\ req[o].why # "") =>
      /\ req[r].pc = "done"
      /\ Is(req[r].response, 401, "Invalid or expired token")
      /\ req[r].response = req[o].response
      /\ ~Entered(req[r], "fetch")

C4_Witness ==
  \E r, o \in Reqs :
    /\ req[r].pc = "done" /\ req[r].why = "JWSSignatureVerificationFailed"
    /\ req[o].pc = "done" /\ req[o].why = "JWTExpired"
    /\ \E t \in Reqs : req[t].url = Root(<<"tGood">>)

----------------------------------------------------------------------------
(* C5: a cache hit bypasses every later stage.                             *)

\* C5: an invocation whose lookup met an undiscarded entry for its URL is
\* answered with that entry and enters no other stage: no validated
\* credentials, no verification, no provider call, no cache write,
\* whatever its bindings are.
C5_HitBypasses ==
  \A r \in Reqs :
    LET q == req[r] IN
    (q.pc \notin {"idle", "match"} /\ q.seen.live) =>
      /\ q.pc = "done"
      /\ q.trace = <<"cache">>
      /\ q.response.status = 200
      /\ q.response.body = q.seen.body
      /\ q.creds = NoCreds
      /\ q.why = ""
      /\ q.put = "none"
      /\ ~q.escaped

C5_Witness ==
  \E r \in Reqs :
    /\ req[r].pc = "done" /\ req[r].seen.live
    /\ ~Usable(req[r].env.RESEND_API_KEY)
    /\ req[r].env.RESEND_JWT_SECRET = Str(SecretB)
    /\ req[r].response.status = 200

----------------------------------------------------------------------------
(* C6: environment validation fails closed.                                *)

\* C6: on a cache miss with a credential that is absent or blank, the
\* response is 500 "Server misconfigured" and neither verification nor
\* the provider call is reached.
C6_FailsClosed ==
  \A r \in Reqs :
    LET q == req[r] IN
    (q.pc \notin {"idle", "match"} /\ IsGetRoot(q) /\ ~q.seen.live /\ ~EnvValid(q)) =>
      /\ q.pc = "done"
      /\ Is(q.response, 500, "Server misconfigured")
      /\ ~Entered(q, "verify")
      /\ ~Entered(q, "fetch")

----------------------------------------------------------------------------
(* C7: payload validation.                                                 *)

\* C7: after jwtVerify has settled, a token that failed it is answered 401;
\* one that passed it without a non-empty string email_id is answered 400
\* "Token payload missing email_id" (also when it lacks the timestamps);
\* one with an email_id but a non-number iat or exp is answered 400 "Token
\* missing required timestamps"; none of these reaches the provider.
C7_PayloadValidation ==
  \A r \in Reqs :
    LET q == req[r] IN
    (q.pc \in {"fetch", "done"} /\ Entered(q, "verify")) =>
      IF q.why # ""
        THEN q.pc = "done" /\ q.response.status = 401 /\ ~Entered(q, "fetch")
      ELSE IF ~HasEmailId(PayloadOf(q))
        THEN /\ q.pc = "done"
             /\ Is(q.response, 400, "Token payload missing email_id")
             /\ ~Entered(q, "fetch")
      ELSE IF ~HasTimestamps(PayloadOf(q))
        THEN /\ q.pc = "done"
             /\ Is(q.response, 400, "Token missing required timestamps")
             /\ ~Entered(q, "fetch")
      ELSE Entered(q, "fetch")

C7_Witness ==
  \E r \in Reqs :
    /\ req[r].pc = "done" /\ Entered(req[r], "verify") /\ req[r].why = ""
    /\ ~HasEmailId(PayloadOf(req[r])) /\ ~HasTimestamps(PayloadOf(req[r]))
    /\ req[r].response.body = "Token payload missing email_id"

----------------------------------------------------------------------------
(* C8: the resource fetcher normalizes every provider outcome.             *)

\* C8: for whatever the provider call produced, the invocation ends
\* without an escaped exception and with: 502 and the generic message when
\* the call threw; otherwise 502 and the provider's message when an error
\* with a string message is present, whatever the data; 502 and the
\* generic message for any other error; 404 when there is neither error
\* nor data; 502 "Email body is unavailable" for data without a non-empty
\* html string; and otherwise 200 with the html.
C8_FetcherNormalizes ==
  \A r \in Reqs :
    LET q == req[r]
        o == q.out
    IN (q.pc = "done" /\ Entered(q, "fetch")) =>
         /\ ~q.escaped
         /\ IF o.thrown THEN Is(q.response, 502, "Unable to fetch email")
            ELSE IF ErrorPresent(o) /\ ErrorMessage(o)
              THEN Is(q.response, 502, o.error.v.v)
            ELSE IF ErrorPresent(o) THEN Is(q.response, 502, "Unable to fetch email")
            ELSE IF ~DataPresent(o) THEN Is(q.response, 404, "Email not found")
            ELSE IF ~HtmlPresent(o) THEN Is(q.response, 502, "Email body is unavailable")
            ELSE /\ q.response.status = 200
                 /\ q.response.body = o.data.v.v
                 /\ q.response.ctype = TextHtml

C8_Witness ==
  \E r \in Reqs :
    /\ req[r].pc = "done" /\ Entered(req[r], "fetch")
    /\ ErrorPresent(req[r].out) /\ ErrorMessage(req[r].out) /\ HtmlPresent(req[r].out)
    /\ req[r].response.status = 502

----------------------------------------------------------------------------
(* C9: unmatched routes.                                                   *)

----------------------------------------------------------------------------
(* C10: stage ordering with short-circuit.                                 *)

Last(s) == s[Len(s)]

Stages == <<"cache", "env", "token", "verify", "fetch", "respond", "put">>

VerifiesFully(q) ==
  q.why = "" /\ HasEmailId(PayloadOf(q)) /\ HasTimestamps(PayloadOf(q))

\* C10: the stages an invocation of GET / has entered are an initial part
\* of cache, env, token, verify, fetch, respond, put; a stage is entered
\* only when the ones before it succeeded; and on a miss the response has
\* the status of the earliest stage that fails: 500 for the environment
\* (also when the token is missing), 400 for a missing token, 401 or 400
\* for verification, 404 or 502 for the fetch, and 200 otherwise.
C10_StageOrder ==
  \A r \in Reqs :
    LET q == req[r] IN
    (q.pc # "idle" /\ IsGetRoot(q)) =>
      /\ Len(q.trace) <= Len(Stages)
      /\ \A i \in DOMAIN q.trace : q.trace[i] = Stages[i]
      /\ Entered(q, "env") => ~q.seen.live
      /\ Entered(q, "token") => EnvValid(q)
      /\ Entered(q, "verify") => ~TokenMissing(q)
      /\ Entered(q, "fetch") => VerifiesFully(q)
      /\ Entered(q, "respond") => HtmlPresent(q.out)
      /\ (q.pc = "done" /\ ~q.seen.live) =>
           IF ~EnvValid(q) THEN q.response.status = 500 /\ Len(q.trace) = 2
           ELSE IF TokenMissing(q) THEN q.response.status = 400 /\ Len(q.trace) = 3
           ELSE IF ~VerifiesFully(q)
             THEN q.response.status \in {400, 401} /\ Len(q.trace) = 4
           ELSE IF ~Entered(q, "respond")
             THEN q.response.status \in {404, 502} /\ Len(q.trace) = 5
           ELSE q.response.status = 200

C10_Witness ==
  \E r \in Reqs :
    /\ req[r].pc = "done" /\ IsGetRoot(req[r]) /\ ~req[r].seen.live
    /\ req[r].env.RESEND_API_KEY.t = "string" /\ ~EnvValid(req[r])
    /\ TokenMissing(req[r])
    /\ req[r].response.status = 500

----------------------------------------------------------------------------
(* C11: what the cache holds.                                              *)

\* A response the handler may store: status 200, html, and a cache-control
\* of public, max-age=N, s-maxage=N with N > 0.
Cacheable(response) ==
  /\ response.status = 200
  /\ response.ctype = TextHtml
  /\ response.body # ""
  /\ Len(response.cc) = 5
  /\ response.cc[3] \in Nat /\ response.cc[3] > 0
  /\ response.cc = <<"public", "max-age", response.cc[3], "s-maxage", response.cc[3]>>

\* The invocation went through every stage up to the scheduling of the
\* write: valid bindings, a token, a verified payload, fetched html.
PassedAllStages(q) ==
  /\ q.trace = Stages
  /\ ~q.hit /\ ~q.escaped
  /\ EnvValid(q) /\ ~TokenMissing(q) /\ VerifiesFully(q) /\ HtmlPresent(q.out)

\* The keys under which c2 differs from c1.
Written(c1, c2) ==
  {k \in DOMAIN c2 : k \notin DOMAIN c1 \/ c2[k] # c1[k]}

\* C11: every entry of the cache is a status-200 html response whose
\* cache-control is public, max-age=N, s-maxage=N with N > 0 (never a
\* failure response, never no-store), and every write to the cache is the
\* response of an invocation that passed environment validation, token
\* extraction, verification and the fetch.
C11_CacheContent ==
  /\ [](\A k \in DOMAIN cache :
          /\ Cacheable(cache[k].response)
          /\ cache[k].response.status \notin {400, 401, 404, 500, 502}
          /\ cache[k].response.cc # NoStore)
  /\ [][\A k \in Written(cache, cache') :
          \E r \in Reqs :
            /\ req[r].put = "pending" /\ req'[r].put = "stored"
            /\ createCacheKey(req[r]) = k
            /\ PassedAllStages(req[r])
            /\ cache'[k].response = req[r].response]_vars

\* The cache holds an entry while one invocation has answered with a
\* failure and the other with a no-store 200.
C11_Witness ==
  /\ DOMAIN cache # {}
  /\ \E r \in Reqs : req[r].pc = "done" /\ req[r].response.status \in {401, 404, 500, 502}
  /\ \E r \in Reqs : Fresh200(req[r]) /\ req[r].response.cc = NoStore

----------------------------------------------------------------------------
(* C12: the cache policy of a successful fetch.                            *)

\* The remaining lifetime of the token when the fetch returned.
Ttl(q) == TokenExpiry(q.url) - q.builtAt

\* How many times the invocation entered the stage.
Times(q, stage) == Cardinality({i \in DOMAIN q.trace : q.trace[i] = stage})

\* C12: with ttl the token's exp minus the clock when the fetch returned,
\* a fresh 200 carries the provider's html; when ttl > 0 its cache-control
\* is exactly public, max-age=ttl, s-maxage=ttl and exactly one write to
\* the cache was scheduled; when ttl <= 0 its cache-control is no-store
\* and no write was scheduled.  The header and the decision to write agree.
C12_CachePolicy ==
  \A r \in Reqs :
    LET q == req[r] IN
    Fresh200(q) =>
      /\ HtmlPresent(q.out)
      /\ q.response.body = q.out.data.v.v
      /\ q.response.ctype = TextHtml
      /\ IF Ttl(q) > 0
         THEN /\ q.response.cc = <<"public", "max-age", Ttl(q), "s-maxage", Ttl(q)>>
              /\ Times(q, "put") = 1
              /\ q.put \in {"pending", "stored", "failed"}
         ELSE /\ q.response.cc = <<"no-store">>
              /\ Times(q, "put") = 0
              /\ q.put = "none"
      /\ (q.response.cc = <<"no-store">>) <=> (q.put = "none")

\* One fresh 200 was built after the token's expiry (no-store, nothing
\* scheduled) while the other was built before it and has its write
\* scheduled.
C12_Witness ==
  \E r1, r2 \in Reqs :
    /\ Fresh200(req[r1]) /\ Ttl(req[r1]) < 0
    /\ req[r1].response.cc = NoStore /\ req[r1].put = "none"
    /\ Fresh200(req[r2]) /\ Ttl(req[r2]) > 0 /\ req[r2].put = "pending"

----------------------------------------------------------------------------
(* C13: the write to the cache is detached.                                *)

Awaiting(q) == q.pc \in {"match", "verify", "fetch"}

\* C13: the response is returned without waiting for the write to the
\* cache: while the write is pending the invocation has already answered
\* 200; with the handler's own awaits settling, and nothing assumed of
\* the write, every invocation that awaits the cache, the verification or
\* the fetch eventually answers; and when the write settles, stored or
\* failed, the response already given keeps its status, body and headers.
C13_DetachedWrite ==
  /\ \A r \in Reqs : Awaiting(req[r]) ~> (req[r].pc = "done")
  /\ [](\A r \in Reqs :
          req[r].put = "pending" => req[r].pc = "done" /\ req[r].response.status = 200)
  /\ [][\A r \in Reqs :
          (req[r].put = "pending" /\ req'[r].put # "pending") =>
            /\ req'[r].put \in {"stored", "failed"}
            /\ req'[r].pc = "done"
            /\ req'[r].response = req[r].response]_vars

\* An invocation has answered 200 and its write to the cache has failed,
\* while the write of the other is still pending.
C13_Witness ==
  \E r1, r2 \in Reqs :
    /\ Fresh200(req[r1]) /\ req[r1].put = "failed"
    /\ req[r1].response.body = req[r1].out.data.v.v
    /\ Fresh200(req[r2]) /\ req[r2].put = "pending"

----------------------------------------------------------------------------
(* C14: the expiry of the token and the lifetime of the entry.             *)

\* C14: with the cache discarding an entry max-age seconds after the put
\* took effect, no invocation is answered from the cache at a clock value
\* later than the exp of the token in its URL, whatever the delay between
\* the computation of the lifetime and the moment the write takes effect.
C14_ExpiryHonoured ==
  \A r \in Reqs :
    (req[r].pc = "done" /\ req[r].hit) => ~req[r].seen.late

----------------------------------------------------------------------------
(* C15: errors are values.                                                 *)

\* The rows of the table of error responses.
ErrorRow(status, message) ==
  \/ status = 400 /\ message \in {"Token not provided",
                                  "Token payload missing email_id",
                                  "Token missing required timestamps"}
  \/ status = 401 /\ message = "Invalid or expired token"
  \/ status = 404 /\ message \in {"Email not found", "Not Found"}
  \/ status = 500 /\ message = "Server misconfigured"
  \/ status = 502

\* C15: for every GET /, whichever collaborator fails, no exception leaves
\* the handler, and the response is either the 200 or a plain-text
\* response whose status and message are a row of the table of errors.
C15_ErrorsAreValues ==
  \A r \in Reqs :
    LET q == req[r] IN
    (q.pc = "done" /\ IsGetRoot(q)) =>
      /\ ~q.escaped
      /\ \/ q.response.status = 200
         \/ /\ q.response.ctype = TextPlain
            /\ ErrorRow(q.response.status, q.response.body)

----------------------------------------------------------------------------
(* C16: no retries.                                                        *)

\* The stages that call out of the handler.
ExternalCalls == {"cache", "verify", "fetch", "put"}

\* t extends s.
Extends(t, s) == Len(t) >= Len(s) /\ SubSeq(t, 1, Len(s)) = s

\* C16: within one invocation each external call (cache read, token
\* verification, fetch, cache write) is made exactly once when its stage
\* is reached and never again; once a stage has failed and the failure
\* response is out, no further call is made.
C16_NoRetries ==
  /\ [](\A r \in Reqs :
          LET q == req[r] IN
          /\ \A call \in ExternalCalls : Times(q, call) <= 1
          /\ q.pc = "match" => Times(q, "cache") = 1
          /\ q.pc = "verify" => Times(q, "verify") = 1
          /\ q.pc = "fetch" => Times(q, "fetch") = 1
          /\ (q.put # "none") <=> (Times(q, "put") = 1)
          /\ (q.pc = "done" /\ q.response.status # 200) => q.put = "none")
  /\ [][\A r \in Reqs :
          LET q == req[r] IN
          (q.pc # "idle" /\ req'[r] # Idle) =>
            /\ Extends(req'[r].trace, q.trace)
            /\ q.pc = "done" => (req'[r].pc = "done" /\ req'[r].trace = q.trace)
            /\ q.put \in {"stored", "failed"} => req'[r].put = q.put]_vars

\* The fetch was called once, it failed, and nothing was called after it.
C16_Witness ==
  \E r \in Reqs :
    /\ req[r].pc = "done" /\ req[r].response.status \in {404, 502}
    /\ Times(req[r], "fetch") = 1
    /\ Last(req[r].trace) = "fetch"
    /\ req[r].put = "none"

----------------------------------------------------------------------------
(* C17: a 200 is only ever given for a verified token.                     *)

\* The token of the URL is signed with the secret of the invocation's
\* bindings.
SignedWithConfigured(q) ==
  /\ q.url.has /\ IsCompactJws(Trim(q.url.token))
  /\ q.env.RESEND_JWT_SECRET.t = "string"
  /\ Jwts[Trim(q.url.token)[1]].secret = Trim(q.env.RESEND_JWT_SECRET.v)

\* The origin o is an invocation for url whose token passed verification
\* under its configured secret and that asked the provider for the email
\* id of that token.
VerifiedFor(o, url) ==
  /\ o.url = url
  /\ o.verified
  /\ IsCompactJws(Trim(url.token))
  /\ Str(o.emailId) = Jwts[Trim(url.token)[1]].payload.email_id
  /\ o.html \in {Html1, Html2}

\* C17: under any interleaving, a 200 for a URL, fresh or from the cache,
\* is given only if an invocation for that URL, this one or an earlier
\* one, passed token verification under its configured secret, and its
\* body is the html the provider returned to that invocation for the
\* email id of the token; the body of an entry of the cache, and of every
\* hit, is that of the fresh response that populated the entry.
C17_AuthenticationSafety ==
  /\ \A k \in DOMAIN cache :
       /\ VerifiedFor(cache[k].origin, k)
       /\ cache[k].response.body = cache[k].origin.html
  /\ \A r \in Reqs :
       LET q == req[r] IN
       (q.pc = "done" /\ IsGetRoot(q) /\ q.response.status = 200) =>
         IF q.hit
         THEN /\ VerifiedFor(q.seen.origin, q.url)
              /\ q.response.body = q.seen.origin.html
              /\ q.response.body = q.seen.body
         ELSE /\ SignedWithConfigured(q)
              /\ VerifiedFor(Origin(q), q.url)
              /\ q.response.body = Origin(q).html

\* A hit under bindings whose secret does not verify the token of the URL:
\* the entry was written by an invocation under the other secret.
C17_Witness ==
  \E r \in Reqs :
    /\ req[r].pc = "done" /\ req[r].hit /\ req[r].response.status = 200
    /\ ~SignedWithConfigured(req[r])
    /\ req[r].seen.origin.verified
    /\ req[r].response.body = Html2

----------------------------------------------------------------------------
(* C18: request isolation.                                                 *)

\* The entry of cache c under url is there and not yet discarded at t.
LiveUnder(c, url, t) == url \in DOMAIN c /\ t < c[url].expiresAt

\* C18: an invocation for a URL reads and writes only the entry of the
\* cache under that URL: whether it is a hit, and with what response, is
\* decided by that entry alone, and a step that changes the cache changes
\* one entry, that under the URL of an invocation whose write settles,
\* and removes none.  An invocation that ends in a failure response, in a
\* 200 with ttl <= 0 or in a hit writes nothing.  Invocations share
\* nothing but the cache: a step changes the record of one invocation at
\* most, so what an invocation for one URL answers is not affected by
\* invocations for other URLs.
C18_RequestIsolation ==
  /\ [](\A r \in Reqs :
          LET q == req[r] IN
          /\ (q.pc = "done" /\ q.hit) => q.seen.origin.url = q.url
          /\ (q.pc = "done" /\ ~(Fresh200(q) /\ Ttl(q) > 0)) => q.put = "none")
  /\ [][/\ \A r1, r2 \in Reqs :
            r1 # r2 => (req'[r1] = req[r1] \/ req'[r2] = req[r2])
        /\ \A r \in Reqs :
            (req[r].pc = "match" /\ req'[r] # req[r]) =>
              /\ req'[r].hit <=> LiveUnder(cache, req[r].url, now)
              /\ req'[r].hit => req'[r].response = cache[req[r].url].response
              /\ cache' = cache
        /\ DOMAIN cache \subseteq DOMAIN cache'
        /\ Cardinality(Written(cache, cache')) <= 1
        /\ \A k \in Written(cache, cache') :
            \E r \in Reqs :
              /\ req[r].url = k
              /\ Fresh200(req[r]) /\ Ttl(req[r]) > 0
              /\ req[r].put = "pending" /\ req'[r].put = "stored"
              /\ \A o \in Reqs \ {r} : req'[o] = req[o]]_vars

\* The cache holds an entry under each of two URLs; one invocation was
\* answered from the entry under its own URL and the other ended in a
\* failure for another URL.
C18_Witness ==
  /\ Cardinality(DOMAIN cache) = 2
  /\ \E r1, r2 \in Reqs :
       /\ req[r1].pc = "done" /\ req[r1].hit /\ req[r1].seen.origin.url = req[r1].url
       /\ req[r2].pc = "done" /\ req[r2].response.status \in {401, 404, 500}
       /\ req[r2].url # req[r1].url

====
